---- MODULE Spec2Model ----
(***************************************************************************)
(* Model of the AT24Cxx serial EEPROM driver (AT24Cxx.c / AT24Cxx.h).      *)
(*                                                                         *)
(* The state is one device handle (at24cxx_t), the contents of the chip   *)
(* behind the bus, and the record of the bus transactions of the call in  *)
(* progress.  Both transport builds of the source (AT24Cxx_I2C_MODE 0,    *)
(* bit-level, and 1, block transfer) are modelled; the build is chosen in *)
(* Init and never changes.                                                 *)
(***************************************************************************)
EXTENDS Integers, Sequences, FiniteSets, TLC

VARIABLES
    mode,       \* AT24Cxx_I2C_MODE of the build: 0 software, 1 hardware
    dev,        \* the handle: [type, i2caddr, pagesize] (AT24Cxx_INFO_t)
    mem,        \* chip contents that differ from the blank pattern
    pc,         \* position of the caller: "idle", or inside Readback_Write
    op,         \* the call in progress / the last call and its arguments
    log,        \* bus events of that call, in order
    ret,        \* return value of the last finished call
    rdata,      \* buffer filled by the last AT24Cxx_Read / compare_data
    rb,         \* locals of AT24Cxx_Readback_Write: i, quotient, remainder
    calls,      \* number of calls started
    limit,      \* number of calls the scenario makes
    scen,       \* the scenario: "single", "seq", "fault" or "long"
    cfg,        \* the arguments AT24Cxx_config was called with
    prev        \* the call before op: its arguments, return value and the
                \* chip contents it left

vars == <<mode, dev, mem, pc, op, log, ret, rdata, rb, calls, limit, scen, cfg, prev>>

---------------------------------------------------------------------------
(* Bounds of the scenarios.                                                *)

MaxCalls == 1           \* calls of a "single" or "fault" scenario
MaxSeqCalls == 2        \* calls of a "seq" scenario
MaxFaultIdx == 3        \* transactions of one call that may report failure
MaxReads == 258         \* reads one Readback_Write is followed through

---------------------------------------------------------------------------
(* AT24Cxx_CHIP, AT24Cxx.h:72-86.                                          *)

AT24C01 == 1
AT24C02 == 2
AT24C04 == 3
AT24C08 == 4
AT24C16 == 5
AT24C32 == 6
AT24C64 == 7
AT24C128 == 8
AT24C256 == 9
AT24C512 == 10
AT24CM01 == 11
AT24CM02 == 12

ChipTypes == AT24C01 .. AT24CM02

AT24Cxx_MAX_ERASE_SIZE == 10
AT24Cxx_MAX_COMPARE_SIZE == 10

(* The "1 0 1 0" device type nibble, AT24Cxx.h:114.                        *)
DevTypeBits == 10

Pow2(n) == 2 ^ n
U8(x) == x % 256
U16(x) == x % 65536

min(a, b) == IF a < b THEN a ELSE b
max(a, b) == IF a > b THEN a ELSE b

(* rbit(val, x): bit x of val.                                             *)
rbit(val, x) == (val \div Pow2(x)) % 2

(* rsp |= e on status bytes that are 0 or 1.                               *)
BitOr(a, b) == IF a = 0 /\ b = 0 THEN 0 ELSE 1

(* Mutant of SetBit: the bit is OR-ed in and never cleared.                *)
SetBitOrOnly(byte, pos, v) ==
    IF rbit(byte, pos) = 1 THEN byte ELSE byte + (v % 2) * Pow2(pos)

(* Assignment to a one-bit bit-field at bit position pos of a byte.        *)
SetBit(byte, pos, v) == byte - rbit(byte, pos) * Pow2(pos) + (v % 2) * Pow2(pos)

(* Capacity in bytes, from the "Byte" column of the table in AT24Cxx.c.    *)
Capacity(type) ==
    CASE type = AT24C01 -> 128
      [] type = AT24C02 -> 256
      [] type = AT24C04 -> 512
      [] type = AT24C08 -> 1024
      [] type = AT24C16 -> 2048
      [] type = AT24C32 -> 4096
      [] type = AT24C64 -> 8192
      [] type = AT24C128 -> 16384
      [] type = AT24C256 -> 32768
      [] type = AT24C512 -> 65536
      [] type = AT24CM01 -> 131072
      [] type = AT24CM02 -> 262144

(* Number of address bits the chip takes from the device-address byte     *)
(* (bits 1..3), from the "Device Address" column of the same table.       *)
SpillBits(type) ==
    CASE type = AT24C04 -> 1
      [] type = AT24C08 -> 2
      [] type = AT24C16 -> 3
      [] type = AT24CM01 -> 1
      [] type = AT24CM02 -> 2
      [] OTHER -> 0

(* Number of word-address bytes the chip expects ("Word Address" column).  *)
WordBytes(type) == IF type >= AT24C32 THEN 2 ELSE 1

(* The address the chip decodes from a device-address byte and the word    *)
(* address bytes that follow it.                                           *)
Decode(type, devbyte, word) ==
    ((devbyte \div 2) % Pow2(SpillBits(type))) * Pow2(8 * WordBytes(type)) + word

---------------------------------------------------------------------------
(* AT24Cxx_GetPageWriteSize                                                *)

(* Mutant of AT24Cxx_GetPageWriteSize: AT24C32 and AT24C64 fall into the   *)
(* 16-byte class.                                                          *)
GetPageWriteSizeC32As16(type) ==
    IF type = AT24C01 \/ type = AT24C02 THEN 8
    ELSE IF type >= AT24C04 /\ type <= AT24C64 THEN 16
    ELSE IF type = AT24C128 \/ type = AT24C256 THEN 64
    ELSE IF type = AT24C512 THEN 128
    ELSE IF type = AT24CM01 \/ type = AT24CM02 THEN 256
    ELSE 8

(* Mutant of AT24Cxx_GetPageWriteSize: no default, an unrecognized type    *)
(* gives 0.                                                                *)
GetPageWriteSizeDefault0(type) ==
    IF type = AT24C01 \/ type = AT24C02 THEN 8
    ELSE IF type = AT24C04 \/ type = AT24C08 \/ type = AT24C16 THEN 16
    ELSE IF type = AT24C32 \/ type = AT24C64 THEN 32
    ELSE IF type = AT24C128 \/ type = AT24C256 THEN 64
    ELSE IF type = AT24C512 THEN 128
    ELSE IF type = AT24CM01 \/ type = AT24CM02 THEN 256
    ELSE 0

AT24Cxx_GetPageWriteSize(type) ==
    IF type = AT24C01 \/ type = AT24C02 THEN 8
    ELSE IF type = AT24C04 \/ type = AT24C08 \/ type = AT24C16 THEN 16
    ELSE IF type = AT24C32 \/ type = AT24C64 THEN 32
    ELSE IF type = AT24C128 \/ type = AT24C256 THEN 64
    ELSE IF type = AT24C512 THEN 128
    ELSE IF type = AT24CM01 \/ type = AT24CM02 THEN 256
    ELSE 8

(* AT24Cxx_config: the handle after configuration.  devtype.bit is the top *)
(* nibble, hardaddr.bit bits 1..3 of i2caddr.byte; bit 0 (R/W) is left to  *)
(* the transport and kept 0 here.                                          *)
AT24Cxx_config(type, devaddr, haraddr) ==
    [type |-> type,
     i2caddr |-> (devaddr % 16) * 16 + (haraddr % 8) * 2,
     pagesize |-> AT24Cxx_GetPageWriteSize(type)]

(* Mutant of AT24Cxx_SetWordAddress: case AT24C04 falls through into the   *)
(* cases of AT24C08 and AT24C16 and writes bit1 and bit2 as well.          *)
SetWordAddressC04FallsThrough(d, addr) ==
    LET b == d.i2caddr
        b3 == SetBit(SetBit(SetBit(b, 1, rbit(addr, 8)), 2, rbit(addr, 9)),
                     3, rbit(addr, 10))
        b0 == IF d.type >= AT24C32
              THEN IF d.type = AT24CM01
                   THEN SetBit(b, 1, rbit(addr, 16))
                   ELSE IF d.type = AT24CM02
                   THEN SetBit(SetBit(b, 1, rbit(addr, 16)), 2, rbit(addr, 17))
                   ELSE b
              ELSE IF d.type = AT24C04 \/ d.type = AT24C16
                   THEN b3
                   ELSE IF d.type = AT24C08
                   THEN SetBit(SetBit(b, 1, rbit(addr, 8)), 2, rbit(addr, 9))
                   ELSE b
    IN  [dev |-> [d EXCEPT !.i2caddr = b0],
         addrsize |-> IF d.type >= AT24C32 THEN 2 ELSE 1]

(* AT24Cxx_SetWordAddress: the handle with the spillover bits of addr      *)
(* written into i2caddr, and *addrsize.                                    *)
AT24Cxx_SetWordAddress(d, addr) ==
    LET b == d.i2caddr
        b0 == IF d.type >= AT24C32
              THEN IF d.type = AT24CM01
                   THEN SetBit(b, 1, rbit(addr, 16))
                   ELSE IF d.type = AT24CM02
                   THEN SetBit(SetBit(b, 1, rbit(addr, 16)), 2, rbit(addr, 17))
                   ELSE b
              ELSE IF d.type = AT24C04
                   THEN SetBit(b, 1, rbit(addr, 8))
                   ELSE IF d.type = AT24C08
                   THEN SetBit(SetBit(b, 1, rbit(addr, 8)), 2, rbit(addr, 9))
                   ELSE IF d.type = AT24C16
                   THEN SetBit(SetBit(SetBit(b, 1, rbit(addr, 8)), 2, rbit(addr, 9)),
                               3, rbit(addr, 10))
                   ELSE b
    IN  [dev |-> [d EXCEPT !.i2caddr = b0],
         addrsize |-> IF d.type >= AT24C32 THEN 2 ELSE 1]

---------------------------------------------------------------------------
(* The chip and the transport behind dev->port.bus.                        *)

(* Contents of a chip that was never written.                              *)
Blank(a) == (a * 7 + 3) % 256

MemAt(m, a) == IF a \in DOMAIN m THEN m[a] ELSE Blank(a)

(* Where byte j (1-based) of a page write that starts at base lands: in    *)
(* the page of base, rolling over to the start of that page.               *)
PageTarget(P, base, j) == (base \div P) * P + (((base % P) + (j - 1)) % P)

(* A page write of payload at chip address base.  dropAt is the position   *)
(* (1-based) of a payload byte the transfer loses, or 0.  LastAt(a) is the *)
(* position of the last payload byte that lands on a (0: none does).       *)
ChipWrite(m, P, base, payload, dropAt) ==
    LET n == Len(payload)
        page == (base \div P) * P
        First(a) == (((a - base) + P) % P) + 1
        Final(a) == First(a) + P * ((n - First(a)) \div P)
        LastAt(a) == IF First(a) > n THEN 0
                     ELSE IF Final(a) # dropAt THEN Final(a)
                     ELSE IF Final(a) > P THEN Final(a) - P ELSE 0
        T == {a \in page .. (page + P - 1) : LastAt(a) > 0}
    IN  [a \in (DOMAIN m) \cup T |-> IF a \in T THEN payload[LastAt(a)] ELSE m[a]]

(* A sequential read of n bytes from chip address base; the chip's address *)
(* counter wraps at the end of the array.                                  *)
ChipRead(m, type, base, n) ==
    [j \in 1 .. n |-> MemAt(m, (base + (j - 1)) % Capacity(type))]

(* What the transport does in one call: wfail / rfail are the write / read *)
(* transactions (numbered from 1 within the call) that report failure;     *)
(* wland / rland say whether a transaction that reports failure moved its  *)
(* data all the same; drop is the offset, from the call's start address,   *)
(* of a byte a write loses without any error signal (-1: none); junk is    *)
(* the value of buffer bytes nothing has written.                          *)
NoFault == [wfail |-> {}, wland |-> FALSE, drop |-> -1,
            rfail |-> {}, rland |-> FALSE, junk |-> 0]

WErr(plan, k) == IF k \in plan.wfail THEN 1 ELSE 0
RErr(plan, k) == IF k \in plan.rfail THEN 1 ELSE 0

(* One bus event.  kind is "w" (write transaction), "r" (read transaction) *)
(* or "delay" (AT24CXX_WCYCLEMS).  devbyte is dev->info.i2caddr.byte as    *)
(* sent, addr the address the driver means, asize the number of word       *)
(* address bytes and word their value: LSB_16(addr), or MSB_16(addr) then  *)
(* LSB_16(addr), in the software build; the low asize bytes of the address *)
(* handed to wmem / rmem in the hardware build.  bus is what the software  *)
(* build sends after the read address of a read transaction (RByteSeq).    *)
Ev(kind, devbyte, addr, asize, len, err, data) ==
    [kind |-> kind, devbyte |-> devbyte, addr |-> addr, asize |-> asize,
     word |-> IF asize > 0 THEN addr % Pow2(8 * asize) ELSE 0,
     len |-> len, err |-> err, data |-> data, bus |-> <<>>]

DelayEv == Ev("delay", 0, 0, 0, 0, 0, <<>>)

(* The chip's side of a write transaction ev of the call that started at   *)
(* saddr: the chip decodes its address from the bytes on the bus.          *)
BusWrite(m, d, ev, plan, saddr) ==
    IF ev.err = 1 /\ ~plan.wland
    THEN m
    ELSE ChipWrite(m, d.pagesize, Decode(d.type, ev.devbyte, ev.word), ev.data,
                   IF plan.drop >= 0 THEN saddr + plan.drop - ev.addr + 1 ELSE 0)

---------------------------------------------------------------------------
(* AT24Cxx_Write                                                           *)

(* The locals of AT24Cxx_Write / AT24Cxx_Erase on entry.  data is the      *)
(* caller's buffer (Write) or fbuf (Erase); cur is how far the data        *)
(* pointer has advanced; k counts the transactions issued.  The uint32_t   *)
(* locals hold addresses and sizes within a chip (below 2^18), where       *)
(* uint32_t arithmetic is exact: RemainSize - size is never negative.      *)
LoopInit(md, d, m, saddr, data, size, plan) ==
    [mode |-> md, dev |-> d, mem |-> m, log |-> <<>>,
     saddr |-> saddr, i |-> saddr, size |-> size, RemainSize |-> size,
     EndAddr |-> saddr + size, rsp |-> 0,
     data |-> data, cur |-> 0, k |-> 0, plan |-> plan,
     erase_size |-> 0]

(* rsp after a transaction that reports err: "rsp |= ..." on every bus     *)
(* primitive in the software build, "rsp = wmem(...)" in the hardware      *)
(* build.                                                                  *)
WriteRsp(md, rsp, err) == IF md = 0 THEN BitOr(rsp, err) ELSE err

(* Mutant of WriteXfer: the delay is taken between chunks only, not after  *)
(* the last one.                                                           *)
WriteXferNoDelayAfterLast(st, size, swa, ev) ==
    [st EXCEPT
        !.size = size,
        !.RemainSize = st.RemainSize - size,
        !.dev = swa.dev,
        !.rsp = WriteRsp(st.mode, st.rsp, ev.err),
        !.mem = BusWrite(st.mem, swa.dev, ev, st.plan, st.saddr),
        !.log = st.log \o (IF st.RemainSize - size > 0 THEN <<ev, DelayEv>>
                                                      ELSE <<ev>>),
        !.cur = st.cur + size,
        !.k = st.k + 1,
        !.i = st.i + size]

(* The transaction of one iteration and what follows it in the loop body:  *)
(* the wmem call (or the byte-by-byte sequence of the software build) for  *)
(* size bytes at i, data += size, the write-cycle delay, and i += size.    *)
WriteXfer(st, size, swa, ev) ==
    [st EXCEPT
        !.size = size,
        !.RemainSize = st.RemainSize - size,
        !.dev = swa.dev,
        !.rsp = WriteRsp(st.mode, st.rsp, ev.err),
        !.mem = BusWrite(st.mem, swa.dev, ev, st.plan, st.saddr),
        !.log = st.log \o <<ev, DelayEv>>,
        !.cur = st.cur + size,
        !.k = st.k + 1,
        !.i = st.i + size]

(* The write transaction for size bytes at i after AT24Cxx_SetWordAddress. *)
WriteEv(st, size, swa, payload) ==
    Ev("w", swa.dev.i2caddr, st.i, swa.addrsize, size, WErr(st.plan, st.k + 1),
       payload)

(* Mutant of ChunkSize: the offset of i in its page is ignored.            *)
ChunkSizeWholeUnit(unit, i, RemainSize) == min(RemainSize, unit)

(* The size of the chunk at i when unit bytes make a page:                 *)
(* CurPageSize = unit - (i % unit); size = min(RemainSize, CurPageSize).   *)
ChunkSize(unit, i, RemainSize) == min(RemainSize, U16(unit - (i % unit)))

(* Mutant of WriteChunk: the data pointer is not advanced, every chunk is  *)
(* sent from the start of the caller's buffer.                             *)
WriteChunkFromStart(st, size, swa) ==
    WriteXfer(st, size, swa, WriteEv(st, size, swa, SubSeq(st.data, 1, size)))

WriteChunk(st, size, swa) ==
    WriteXfer(st, size, swa,
              WriteEv(st, size, swa, SubSeq(st.data, st.cur + 1, st.cur + size)))

(* One iteration of the for loop of AT24Cxx_Write, its i += size included. *)
WriteStep(st) ==
    WriteChunk(st, ChunkSize(st.dev.pagesize, st.i, st.RemainSize),
               AT24Cxx_SetWordAddress(st.dev, st.i))

RECURSIVE WriteLoop(_)

(* Mutant of WriteLoop: the loop stops at the first failed transaction.    *)
WriteLoopFailFast(st) ==
    IF st.i < st.EndAddr /\ st.rsp = 0 THEN WriteLoop(WriteStep(st)) ELSE st

(* for (i = saddr; i < EndAddr; i += size)                                 *)
WriteLoop(st) == IF st.i < st.EndAddr THEN WriteLoop(WriteStep(st)) ELSE st

AT24Cxx_Write(md, d, m, saddr, data, size, plan) ==
    WriteLoop(LoopInit(md, d, m, saddr, data, size, plan))

---------------------------------------------------------------------------
(* AT24Cxx_Erase                                                           *)

(* The unit the erase loop splits at: the page size in the software build; *)
(* erase_size = min(max(8, AT24Cxx_MAX_ERASE_SIZE), pagesize) in the       *)
(* hardware build.                                                         *)
EraseUnit(md, d) ==
    IF md = 0
    THEN d.pagesize
    ELSE min(max(8, AT24Cxx_MAX_ERASE_SIZE), d.pagesize)

(* Mutant of EraseBuf: memset fills 8 bytes of fbuf whatever erase_size    *)
(* is.                                                                     *)
EraseBufFills8(md, d, fdata) ==
    [j \in 1 .. max(8, AT24Cxx_MAX_ERASE_SIZE) |-> IF j <= 8 THEN fdata ELSE -1]

(* fbuf after memset(fbuf, fdata, erase_size): max(8, MAX_ERASE_SIZE)      *)
(* bytes, the first erase_size of them set; -1 marks a byte never set.     *)
(* The software build has no buffer and sends fdata byte by byte.          *)
EraseBuf(md, d, fdata) ==
    [j \in 1 .. max(8, AT24Cxx_MAX_ERASE_SIZE) |->
        IF j <= EraseUnit(md, d) THEN fdata ELSE -1]

(* The bytes of one erase transaction of length size.                      *)
ErasePayload(st, size) ==
    IF st.mode = 0
    THEN [j \in 1 .. size |-> st.data[1]]
    ELSE [j \in 1 .. size |-> IF j <= Len(st.data) THEN st.data[j] ELSE -1]

EraseChunk(st, size, swa) ==
    WriteXfer(st, size, swa, WriteEv(st, size, swa, ErasePayload(st, size)))

(* One iteration of the for loop of AT24Cxx_Erase.  (The data pointer of   *)
(* WriteXfer is not used by ErasePayload: fbuf is sent from its start.)    *)
EraseStep(st) ==
    EraseChunk(st, ChunkSize(st.erase_size, st.i, st.RemainSize),
               AT24Cxx_SetWordAddress(st.dev, st.i))

RECURSIVE EraseLoop(_)

(* Mutant of EraseLoop: the loop test is off by one and leaves the loop    *)
(* when one byte remains.                                                  *)
EraseLoopStopsEarly(st) ==
    IF st.i + 1 < st.EndAddr THEN EraseLoop(EraseStep(st)) ELSE st

(* for (i = saddr; i < EndAddr; i += size)                                 *)
EraseLoop(st) == IF st.i < st.EndAddr THEN EraseLoop(EraseStep(st)) ELSE st

AT24Cxx_Erase(md, d, m, saddr, fdata, size, plan) ==
    EraseLoop([LoopInit(md, d, m, saddr, EraseBuf(md, d, fdata), size, plan)
                  EXCEPT !.erase_size = EraseUnit(md, d)])

---------------------------------------------------------------------------
(* AT24Cxx_Read                                                            *)

(* buf with its first Len(bytes) entries overwritten by bytes.             *)
Fill(buf, bytes) ==
    [j \in 1 .. max(Len(buf), Len(bytes)) |->
        IF j <= Len(bytes) THEN bytes[j] ELSE buf[j]]

(* Mutant of RByteSeq: the last byte is acknowledged like the others.      *)
RByteSeqAllAck(md, size) ==
    IF md = 0
    THEN [j \in 1 .. size |-> "ACK"] \o <<"STOP">>
    ELSE <<>>

(* The software build's byte reads of a transaction of size >= 1 and what  *)
(* follows them: swi2c_rbyte(ACK) while i < size - 1, swi2c_rbyte(NACK),   *)
(* swi2c_stop.  The hardware build hands the whole request to rmem.        *)
RByteSeq(md, size) ==
    IF md = 0
    THEN [j \in 1 .. size - 1 |-> "ACK"] \o <<"NACK", "STOP">>
    ELSE <<>>

(* AT24Cxx_Read for size >= 1, and for size 0 in the hardware build (the   *)
(* request is handed to rmem as it is).  k is the number of the read       *)
(* transaction within the call, buf the caller's buffer.  A transaction    *)
(* that reports failure without having moved data leaves what the byte     *)
(* reads returned (software build) or the buffer as it was (hardware       *)
(* build).                                                                 *)
ReadXfer(md, d, m, ev, buf, plan) ==
    [dev |-> d,
     rsp |-> ev.err,
     buf |-> IF ev.err = 0 \/ plan.rland
             THEN Fill(buf, ChipRead(m, d.type, Decode(d.type, ev.devbyte, ev.word),
                                     ev.len))
             ELSE IF md = 0
                  THEN Fill(buf, [j \in 1 .. ev.len |-> plan.junk])
                  ELSE buf,
     ev |-> [ev EXCEPT !.bus = RByteSeq(md, ev.len)]]

ReadEv(swa, saddr, size, plan, k) ==
    Ev("r", swa.dev.i2caddr, saddr, swa.addrsize, size, RErr(plan, k), <<>>)

ReadAt(md, swa, m, saddr, buf, size, plan, k) ==
    ReadXfer(md, swa.dev, m, ReadEv(swa, saddr, size, plan, k), buf, plan)

AT24Cxx_Read(md, d, m, saddr, buf, size, plan, k) ==
    ReadAt(md, AT24Cxx_SetWordAddress(d, saddr), m, saddr, buf, size, plan, k)

---------------------------------------------------------------------------
(* The callers' inputs.  A scenario is "single" (one call, every request), *)
(* "seq" (a sequence of calls), "fault" (calls on a transport that may     *)
(* fail) or "long" (calls of 2560 bytes, where size / 10 no longer fits    *)
(* the uint8_t counter of Readback_Write); all run the same calls of the   *)
(* driver.                                                                 *)

(* Hardware address straps given to AT24Cxx_config.                        *)
HardAddrs(sc) == IF sc = "single" THEN {2, 5} ELSE {5}

(* The caller's data: n bytes of a pattern that starts at b.               *)
Data(b, n) == [k \in 1 .. n |-> (b + 5 * (k - 1)) % 256]

DataBases == {17}
FillBytes(sc) == IF sc = "single" THEN {0, 255} ELSE {255}

(* (start address, size) of the calls on a chip of the given type: across  *)
(* a page boundary, inside and across several pages, over the last pages   *)
(* of the chip, across the end of the word address, and the empty request. *)
Reqs(type) ==
    LET P == AT24Cxx_GetPageWriteSize(type)
        C == Capacity(type)
    IN  {r \in {<<P - 1, 2>>, <<10, 10>>, <<100, 50>>,
                <<C - P - 1, P + 1>>,
                <<Pow2(8 * WordBytes(type)) - 1, 2>>,
                <<0, 0>>} : r[1] + r[2] <= C}

(* The calls of a sequence: across the first page boundary, across the     *)
(* end of the word address (W bytes), at addresses with one and with two   *)
(* of the bits above it set, into the last page of the chip.               *)
SeqReqs(type) ==
    LET P == AT24Cxx_GetPageWriteSize(type)
        C == Capacity(type)
        W == Pow2(8 * WordBytes(type))
    IN  {r \in {<<P - 1, 2>>, <<10, 10>>, <<W - 1, 2>>, <<2 * W + P - 1, 2>>,
                <<5 * W, 1>>, <<C - P - 1, 3>>} : r[1] + r[2] <= C}

(* The calls made on a transport that may fail.                            *)
FaultTypes == {AT24C02, AT24C16}

FaultReqs(type) ==
    LET P == AT24Cxx_GetPageWriteSize(type)
    IN  {<<P - 1, P + 2>>, <<10, 10>>, <<3, 12>>}

(* The calls of the "long" scenario, on a chip that holds them.            *)
LongTypes == {AT24CM01}

LongReqs(type) ==
    {<<0, 256 * AT24Cxx_MAX_COMPARE_SIZE>>, <<20, AT24Cxx_MAX_COMPARE_SIZE>>,
     <<5, 12>>}

ReqsOf(type, sc) ==
    IF sc = "fault" THEN FaultReqs(type)
    ELSE IF sc = "long" THEN LongReqs(type)
    ELSE IF sc = "seq" THEN SeqReqs(type)
    ELSE Reqs(type)

(* The requests made to AT24Cxx_Erase: in the "long" scenario the short    *)
(* ones only.                                                              *)
EraseReqsOf(type, sc) ==
    IF sc = "long"
    THEN {r \in LongReqs(type) : r[2] < 256 * AT24Cxx_MAX_COMPARE_SIZE}
    ELSE ReqsOf(type, sc)

(* One write transaction fails, or the first MaxFaultIdx all do.           *)
WFaults ==
    {[NoFault EXCEPT !.wfail = F, !.wland = l] :
        F \in {{k} : k \in 1 .. MaxFaultIdx} \cup {1 .. MaxFaultIdx},
        l \in BOOLEAN}

Drops(n) == {[NoFault EXCEPT !.drop = o] : o \in {o \in {0, 11} : o < n}}

RFaults(K) ==
    {[NoFault EXCEPT !.rfail = {k}, !.rland = TRUE] : k \in K}
    \cup {[NoFault EXCEPT !.rfail = {k}, !.junk = g] : k \in K, g \in {0, 255}}

WritePlans(sc, n) ==
    IF sc = "fault" THEN {NoFault} \cup WFaults \cup Drops(n) ELSE {NoFault}
ReadPlans(sc) ==
    IF sc = "fault" THEN {NoFault} \cup RFaults({1}) ELSE {NoFault}
ReadbackPlans(sc, n) ==
    IF sc = "fault"
    THEN {NoFault} \cup WFaults \cup Drops(n) \cup RFaults({1, 2})
    ELSE {NoFault}

NoOp == [name |-> "none", saddr |-> 0, size |-> 0, data |-> <<>>, fdata |-> 0,
         plan |-> NoFault]

NoRb == [i |-> 0, quotient |-> 0, remainder |-> 0, rk |-> 0]

---------------------------------------------------------------------------
(* The state after AT24Cxx_config.                                         *)

InitWith(types, sc, n) ==
    /\ mode \in {0, 1}
    /\ \E type \in types, haraddr \in HardAddrs(sc) :
          /\ cfg = [type |-> type, devaddr |-> DevTypeBits, haraddr |-> haraddr]
          /\ dev = AT24Cxx_config(type, DevTypeBits, haraddr)
    /\ mem = <<>>
    /\ pc = "idle"
    /\ op = NoOp
    /\ log = <<>>
    /\ ret = 0
    /\ rdata = <<>>
    /\ rb = NoRb
    /\ calls = 0
    /\ limit = n
    /\ scen = sc
    /\ prev = [op |-> NoOp, ret |-> 0, mem |-> <<>>]

Init == InitWith(ChipTypes, "single", MaxCalls)

InitSeq == InitWith(ChipTypes, "seq", MaxSeqCalls)

InitFault == InitWith(FaultTypes, "fault", MaxCalls)

InitLong == InitWith(LongTypes, "long", MaxCalls)

---------------------------------------------------------------------------
(* The calls.                                                              *)

Write(a, n, b, plan) ==
    /\ pc = "idle"
    /\ calls < limit
    /\ \E r \in {AT24Cxx_Write(mode, dev, mem, a, Data(b, n), n, plan)} :
           /\ dev' = r.dev
           /\ mem' = r.mem
           /\ log' = r.log
           /\ ret' = r.rsp
    /\ op' = [name |-> "Write", saddr |-> a, size |-> n, data |-> Data(b, n),
              fdata |-> 0, plan |-> plan]
    /\ calls' = calls + 1
    /\ prev' = [op |-> op, ret |-> ret, mem |-> mem]
    /\ UNCHANGED <<mode, pc, rdata, rb, limit, scen, cfg>>

Erase(a, n, fdata, plan) ==
    /\ pc = "idle"
    /\ calls < limit
    /\ \E r \in {AT24Cxx_Erase(mode, dev, mem, a, fdata, n, plan)} :
           /\ dev' = r.dev
           /\ mem' = r.mem
           /\ log' = r.log
           /\ ret' = r.rsp
    /\ op' = [name |-> "Erase", saddr |-> a, size |-> n, data |-> <<>>,
              fdata |-> fdata, plan |-> plan]
    /\ calls' = calls + 1
    /\ prev' = [op |-> op, ret |-> ret, mem |-> mem]
    /\ UNCHANGED <<mode, pc, rdata, rb, limit, scen, cfg>>

(* A caller's AT24Cxx_Read, of n >= 1 bytes into a buffer of n bytes.      *)
Read(a, n, plan) ==
    /\ pc = "idle"
    /\ calls < limit
    /\ n >= 1
    /\ \E r \in {AT24Cxx_Read(mode, dev, mem, a, [j \in 1 .. n |-> plan.junk], n,
                                plan, 1)} :
           /\ dev' = r.dev
           /\ log' = <<r.ev>>
           /\ ret' = r.rsp
           /\ rdata' = r.buf
    /\ op' = [name |-> "Read", saddr |-> a, size |-> n, data |-> <<>>,
              fdata |-> 0, plan |-> plan]
    /\ calls' = calls + 1
    /\ prev' = [op |-> op, ret |-> ret, mem |-> mem]
    /\ UNCHANGED <<mode, mem, pc, rb, limit, scen, cfg>>

---------------------------------------------------------------------------
(* AT24Cxx_Readback_Write, in steps: the write phase, one step per         *)
(* iteration of the comparison loop, and the remainder.                    *)

(* Mutant of RbStart: the write phase is skipped when the chip already     *)
(* holds the data.                                                         *)
RbStartSkipsWriteIfEqual(a, n, b, plan) ==
    /\ pc = "idle"
    /\ calls < limit
    /\ a < 65536 /\ n < 65536
    /\ \E w \in {IF \A k \in 0 .. n - 1 : MemAt(mem, a + k) = Data(b, n)[k + 1]
                  THEN LoopInit(mode, dev, mem, a, Data(b, n), n, plan)
                  ELSE AT24Cxx_Write(mode, dev, mem, a, Data(b, n), n, plan)} :
           /\ dev' = w.dev
           /\ mem' = w.mem
           /\ log' = w.log
    /\ rb' = [i |-> 0,
              quotient |-> U16(n \div AT24Cxx_MAX_COMPARE_SIZE),
              remainder |-> U8(n % AT24Cxx_MAX_COMPARE_SIZE),
              rk |-> 0]
    /\ rdata' = [j \in 1 .. AT24Cxx_MAX_COMPARE_SIZE |-> plan.junk]
    /\ op' = [name |-> "Readback_Write", saddr |-> a, size |-> n,
              data |-> Data(b, n), fdata |-> 0, plan |-> plan]
    /\ pc' = "rb_loop"
    /\ calls' = calls + 1
    /\ prev' = [op |-> op, ret |-> ret, mem |-> mem]
    /\ UNCHANGED <<mode, ret, limit, scen, cfg>>

(* Entry up to the first test of the comparison loop: the Write (its       *)
(* return value is dropped), quotient and remainder.  addr and size are    *)
(* uint16_t; compare_data starts with whatever the stack holds.            *)
RbStart(a, n, b, plan) ==
    /\ pc = "idle"
    /\ calls < limit
    /\ a < 65536 /\ n < 65536
    /\ \E w \in {AT24Cxx_Write(mode, dev, mem, a, Data(b, n), n, plan)} :
           /\ dev' = w.dev
           /\ mem' = w.mem
           /\ log' = w.log
    /\ rb' = [i |-> 0,
              quotient |-> U16(n \div AT24Cxx_MAX_COMPARE_SIZE),
              remainder |-> U8(n % AT24Cxx_MAX_COMPARE_SIZE),
              rk |-> 0]
    /\ rdata' = [j \in 1 .. AT24Cxx_MAX_COMPARE_SIZE |-> plan.junk]
    /\ op' = [name |-> "Readback_Write", saddr |-> a, size |-> n,
              data |-> Data(b, n), fdata |-> 0, plan |-> plan]
    /\ pc' = "rb_loop"
    /\ calls' = calls + 1
    /\ prev' = [op |-> op, ret |-> ret, mem |-> mem]
    /\ UNCHANGED <<mode, ret, limit, scen, cfg>>

(* Mutant of Mismatch: the last byte of a chunk is not compared.           *)
MismatchSkipsLast(data, point, buf, n) ==
    \E j \in 1 .. n - 1 : data[point + j] # buf[j]

(* data[point + j] != compare_data[j] for some j < n.                      *)
Mismatch(data, point, buf, n) == \E j \in 1 .. n : data[point + j] # buf[j]

(* One iteration of "for (i = 0; i < quotient; i++)": i is uint8_t, point  *)
(* uint16_t.  The call is followed for MaxReads reads.                     *)
RbLoop ==
    /\ pc = "rb_loop"
    /\ rb.i < rb.quotient
    /\ rb.rk < MaxReads
    /\ \E point \in {U16(rb.i * AT24Cxx_MAX_COMPARE_SIZE)} :
       \E r \in {AT24Cxx_Read(mode, dev, mem, op.saddr + point, rdata,
                              AT24Cxx_MAX_COMPARE_SIZE, op.plan, rb.rk + 1)} :
       \E bad \in {Mismatch(op.data, point, r.buf, AT24Cxx_MAX_COMPARE_SIZE)} :
           /\ dev' = r.dev
           /\ log' = Append(log, r.ev)
           /\ rdata' = r.buf
           /\ rb' = [rb EXCEPT !.i = IF bad THEN rb.i ELSE U8(rb.i + 1),
                               !.rk = rb.rk + 1]
           /\ pc' = IF bad THEN "idle" ELSE "rb_loop"
           /\ ret' = IF bad THEN 1 ELSE ret
    /\ UNCHANGED <<mode, mem, op, calls, limit, scen, cfg, prev>>

(* point for the remainder: i * MAX_COMPARE_SIZE if quotient > 0, else the *)
(* initial 0.                                                              *)
RemPoint == IF rb.quotient > 0 THEN U16(rb.i * AT24Cxx_MAX_COMPARE_SIZE) ELSE 0

(* The loop has exited: the remainder Read and comparison, and the return. *)
(* Not the zero-length Read of the software build, which is RbRemZero.     *)
RbRem ==
    /\ pc = "rb_loop"
    /\ ~(rb.i < rb.quotient)
    /\ ~(mode = 0 /\ rb.remainder = 0)
    /\ \E r \in {AT24Cxx_Read(mode, dev, mem, op.saddr + RemPoint, rdata,
                              rb.remainder, op.plan, rb.rk + 1)} :
       \E bad \in {Mismatch(op.data, RemPoint, r.buf, rb.remainder)} :
           /\ dev' = r.dev
           /\ log' = Append(log, r.ev)
           /\ rdata' = r.buf
           /\ ret' = IF bad THEN 1 ELSE 0
    /\ rb' = [rb EXCEPT !.rk = rb.rk + 1]
    /\ pc' = "idle"
    /\ UNCHANGED <<mode, mem, op, calls, limit, scen, cfg, prev>>

(* The remainder Read with size 0 in the software build: "i < size - 1" is *)
(* i < 0xFFFFFFFF, so the byte loop of AT24Cxx_Read stores far beyond      *)
(* compare_data.  The outcome is not defined: the call never returns       *)
(* ("fault"), or it returns either status.                                 *)
RbRemZero(outcome) ==
    /\ pc = "rb_loop"
    /\ ~(rb.i < rb.quotient)
    /\ mode = 0 /\ rb.remainder = 0
    /\ LET swa == AT24Cxx_SetWordAddress(dev, op.saddr + RemPoint)
       IN  /\ dev' = swa.dev
           /\ log' = Append(log, ReadEv(swa, op.saddr + RemPoint, 0, op.plan,
                                        rb.rk + 1))
    /\ rb' = [rb EXCEPT !.rk = rb.rk + 1]
    /\ pc' = IF outcome = "fault" THEN "fault" ELSE "idle"
    /\ ret' = IF outcome = "fault" THEN ret ELSE IF outcome = "ret1" THEN 1 ELSE 0
    /\ UNCHANGED <<mode, mem, op, rdata, calls, limit, scen, cfg, prev>>

---------------------------------------------------------------------------

Next ==
    \/ \E r \in ReqsOf(dev.type, scen), b \in DataBases :
          \E plan \in WritePlans(scen, r[2]) : Write(r[1], r[2], b, plan)
    \/ \E r \in EraseReqsOf(dev.type, scen), f \in FillBytes(scen) :
          \E plan \in WritePlans(scen, r[2]) : Erase(r[1], r[2], f, plan)
    \/ \E r \in ReqsOf(dev.type, scen), plan \in ReadPlans(scen) :
          Read(r[1], r[2], plan)
    \/ \E r \in ReqsOf(dev.type, scen), b \in DataBases :
          \E plan \in ReadbackPlans(scen, r[2]) : RbStart(r[1], r[2], b, plan)
    \/ RbLoop
    \/ RbRem
    \/ \E o \in {"fault", "ret0", "ret1"} : RbRemZero(o)

Spec == Init /\ [][Next]_vars

SpecSeq == InitSeq /\ [][Next]_vars

SpecFault == InitFault /\ [][Next]_vars

SpecLong == InitLong /\ [][Next]_vars

---------------------------------------------------------------------------
(* Properties.                                                             *)

(* The write transactions of the call in the log, in order.                *)
IsW(e) == e.kind = "w"
Writes == SelectSeq(log, IsW)

(* The transactions of a log as (address, length) chunks.                  *)
ChunksOf(l) == LET W == SelectSeq(l, IsW)
               IN  [k \in 1 .. Len(W) |-> <<W[k].addr, W[k].len>>]

RECURSIVE SumLen(_)
SumLen(ch) == IF ch = <<>> THEN 0 ELSE ch[1][2] + SumLen(Tail(ch))

(* A chunk sequence covers [start, start + size) in ascending, contiguous, *)
(* non-empty pieces.                                                       *)
Covers(ch, start, size) ==
    /\ SumLen(ch) = size
    /\ size > 0 => ch # <<>> /\ ch[1][1] = start
    /\ \A k \in 1 .. Len(ch) : ch[k][2] >= 1
    /\ \A k \in 1 .. Len(ch) - 1 : ch[k + 1][1] = ch[k][1] + ch[k][2]

(* Every chunk lies in one page of P bytes.                                *)
InOnePage(ch, P) ==
    \A k \in 1 .. Len(ch) : ch[k][1] \div P = (ch[k][1] + ch[k][2] - 1) \div P

Returned(name) == pc = "idle" /\ op.name = name

(* C1: the transactions of AT24Cxx_Write start at the start address, are   *)
(* contiguous, non-overlapping and ascending, have lengths that sum to     *)
(* size, and each lie within one page of the handle's page size.           *)
C1_WriteChunksCoverAndStayInPage ==
    Returned("Write") =>
        /\ Covers(ChunksOf(log), op.saddr, op.size)
        /\ InOnePage(ChunksOf(log), dev.pagesize)

(* A Write that starts inside a page and takes three transactions or more. *)
C1_Witness ==
    /\ Returned("Write")
    /\ op.saddr % dev.pagesize # 0
    /\ Len(Writes) >= 3

(* C2: every transaction of AT24Cxx_Erase lies within one page of the      *)
(* chip's page size, and the chunks are contiguous and sum to size.        *)
C2_EraseChunksCoverAndStayInPage ==
    Returned("Erase") =>
        /\ Covers(ChunksOf(log), op.saddr, op.size)
        /\ InOnePage(ChunksOf(log), dev.pagesize)

(* Some transaction of the log reported a failure.                         *)
SomeErr == \E k \in 1 .. Len(log) : log[k].err = 1

(* C3: AT24Cxx_Write and AT24Cxx_Erase return failure if the transaction   *)
(* of any chunk reported failure, and success only if every one succeeded. *)
C3_ErrorsAccumulate ==
    (Returned("Write") \/ Returned("Erase")) => (ret # 0 <=> SomeErr)

(* C4: AT24Cxx_Readback_Write returns 1 if its Write or any of its Reads   *)
(* reported a transport failure.                                           *)
C4_ReadbackSurfacesFailures ==
    (Returned("Readback_Write") /\ SomeErr) => ret = 1

(* The chip differs from the caller's data somewhere in [addr, addr+size). *)
ChipDiffers ==
    \E k \in 0 .. op.size - 1 : MemAt(mem, op.saddr + k) # op.data[k + 1]

(* C5: when the chip's contents after the write phase differ from data     *)
(* somewhere in [addr, addr + size) and reads return the chip's contents,  *)
(* AT24Cxx_Readback_Write returns failure, never success.                  *)
C5_ReadbackDetectsMismatch ==
    (Returned("Readback_Write") /\ op.size >= 1 /\ op.plan.rfail = {} /\ ChipDiffers)
        => ret = 1

(* A Readback_Write whose write lost the last byte of the final partial    *)
(* chunk without an error signal has returned.                             *)
C5_Witness ==
    /\ Returned("Readback_Write")
    /\ op.plan.drop = op.size - 1
    /\ op.size % AT24Cxx_MAX_COMPARE_SIZE # 0
    /\ op.plan.wfail = {} /\ op.plan.rfail = {}
    /\ ChipDiffers
    /\ ret = 1

(* C6: on a fault-free transport, AT24Cxx_Read(addr, N) right after        *)
(* AT24Cxx_Erase(addr, fill, N), N >= 1, returns N bytes equal to fill.    *)
C6_EraseThenReadGivesFill ==
    (/\ Returned("Read")
     /\ prev.op.name = "Erase"
     /\ prev.op.saddr = op.saddr /\ prev.op.size = op.size
     /\ op.plan = NoFault /\ prev.op.plan = NoFault)
        => /\ Len(rdata) = op.size
           /\ \A j \in 1 .. op.size : rdata[j] = prev.op.fdata

(* The device-address byte for a transaction at addr on the configured     *)
(* handle: the device type nibble, the address bits of the model's         *)
(* spillover positions, the configured straps in the other positions.      *)
DevByteFor(c, addr) ==
    (c.devaddr % 16) * 16
    + 2 * ((addr \div Pow2(8 * WordBytes(c.type))) % Pow2(SpillBits(c.type)))
    + 2 * (((c.haraddr % 8) \div Pow2(SpillBits(c.type))) * Pow2(SpillBits(c.type)))

IsXfer(e) == e.kind # "delay"

(* C7: the device-address byte and the word-address bytes of every         *)
(* transaction decode to the transaction's address, whatever calls came    *)
(* before, and the device-address byte is a function of the configuration  *)
(* and that address alone.                                                 *)
C7_EncoderRoundTrip ==
    \A k \in 1 .. Len(log) :
        (IsXfer(log[k]) /\ log[k].addr < Capacity(dev.type)) =>
            /\ log[k].asize = WordBytes(dev.type)
            /\ Decode(dev.type, log[k].devbyte, log[k].word) = log[k].addr
            /\ log[k].devbyte = DevByteFor(cfg, log[k].addr)

(* A call below address 256 on an AT24C16 whose previous call ended in the *)
(* last page, where all three spillover bits are 1.                        *)
C7_Witness ==
    /\ dev.type = AT24C16
    /\ pc = "idle" /\ calls >= 2
    /\ prev.op.saddr >= Capacity(AT24C16) - 32
    /\ \E k \in 1 .. Len(log) : IsXfer(log[k]) /\ log[k].addr < 256

(* C8: on a fault-free transport AT24Cxx_Readback_Write returns success,   *)
(* also when called a second time with the same arguments, and the second  *)
(* call leaves the chip contents of the first.                             *)
C8_ReadbackIdempotent ==
    (op.name = "Readback_Write" /\ op.plan = NoFault /\ pc # "rb_loop")
        => /\ pc = "idle" /\ ret = 0
           /\ (prev.op = op => prev.ret = 0 /\ mem = prev.mem)

(* The reference splitter: first chunk min(size, P - start mod P), then    *)
(* chunks of min(remaining, P).                                            *)
RECURSIVE RefSplit(_, _, _)
RefSplit(cursor, remaining, P) ==
    IF remaining = 0 THEN <<>>
    ELSE LET n == min(remaining, P - (cursor % P))
         IN  <<<<cursor, n>>>> \o RefSplit(cursor + n, remaining - n, P)

(* C9: AT24Cxx_Write emits exactly the reference splitter's chunks; a      *)
(* write of 2 at page_size - 1 gives two chunks of 1, and on AT24C32 a     *)
(* write of 50 at 100 gives (100, 28) then (128, 22).                      *)
C9_ExactSplit ==
    Returned("Write") =>
        /\ ChunksOf(log) = RefSplit(op.saddr, op.size, dev.pagesize)
        /\ (op.saddr = dev.pagesize - 1 /\ op.size = 2)
              => ChunksOf(log) = <<<<op.saddr, 1>>, <<op.saddr + 1, 1>>>>
        /\ (dev.type = AT24C32 /\ op.saddr = 100 /\ op.size = 50)
              => ChunksOf(log) = <<<<100, 28>>, <<128, 22>>>>

C9_Witness ==
    /\ Returned("Write")
    /\ dev.type = AT24C32 /\ op.saddr = 100 /\ op.size = 50
    /\ Len(Writes) = 2

(* The chunks the same call issues on a transport that never fails.        *)
FaultFreeChunks ==
    IF op.name = "Erase"
    THEN ChunksOf(AT24Cxx_Erase(mode, dev, <<>>, op.saddr, op.fdata, op.size,
                                NoFault).log)
    ELSE ChunksOf(AT24Cxx_Write(mode, dev, <<>>, op.saddr, op.data, op.size,
                                NoFault).log)

(* C10: the transactions of AT24Cxx_Write and AT24Cxx_Erase are those of   *)
(* the fault-free call whatever the error signals are, each issued once.   *)
C10_BestEffortNoRetry ==
    (Returned("Write") \/ Returned("Erase")) =>
        /\ ChunksOf(log) = FaultFreeChunks
        /\ \A j, k \in 1 .. Len(Writes) : j < k => Writes[j].addr < Writes[k].addr

(* A call of three transactions whose first one failed.                    *)
C10_Witness ==
    /\ Returned("Write") \/ Returned("Erase")
    /\ Len(Writes) >= 3
    /\ Writes[1].err = 1
    /\ Writes[3].err = 0

(* C11: every write / erase transaction is followed at once by the         *)
(* write-cycle delay: before the next transaction of the call, before any  *)
(* read of Readback_Write, and before the call returns.                    *)
C11_DelayAfterEveryChunk ==
    \A k \in 1 .. Len(log) :
        log[k].kind = "w" => (k < Len(log) /\ log[k + 1].kind = "delay")

(* An Erase of the hardware build that took two transactions or more has   *)
(* returned after the delay of its last one.                               *)
C11_Witness ==
    /\ Returned("Erase") /\ mode = 1
    /\ Len(Writes) >= 2
    /\ log[Len(log)].kind = "delay"
    /\ log[Len(log) - 1].kind = "w"

(* C12: whatever calls were made, the top nibble of i2caddr.byte is the    *)
(* configured device type, and the hardware-address bits that are not      *)
(* spillover positions of the model have their configured values.          *)
C12_DeviceAddressFrame ==
    /\ dev.i2caddr \div 16 = cfg.devaddr % 16
    /\ \A pos \in 1 .. 3 :
          pos > SpillBits(cfg.type) => rbit(dev.i2caddr, pos) = rbit(cfg.haraddr, pos - 1)
    /\ \A k \in 1 .. Len(log) :
          IsXfer(log[k]) =>
              /\ log[k].devbyte \div 16 = cfg.devaddr % 16
              /\ \A pos \in 1 .. 3 :
                    pos > SpillBits(cfg.type)
                        => rbit(log[k].devbyte, pos) = rbit(cfg.haraddr, pos - 1)

(* Two calls on an AT24C04 have left its spillover bit different from the  *)
(* configured strap.                                                       *)
C12_Witness ==
    /\ pc = "idle" /\ calls >= 2
    /\ dev.type = AT24C04
    /\ rbit(dev.i2caddr, 1) # rbit(cfg.haraddr, 0)
    /\ rbit(cfg.haraddr, 2) = 1

(* Values of the type field, the 12 models among them.                     *)
TypeValues == 0 .. 255

(* C13: AT24Cxx_GetPageWriteSize gives a value in 8..256 for each model    *)
(* and 8 for any other value (evaluated once, in the state after           *)
(* AT24Cxx_config); transactions carry 2 word-address bytes for            *)
(* AT24C32..AT24CM02 and 1 otherwise; no call changes type or pagesize.    *)
C13_ChipDescriptor ==
    /\ calls = 0 =>
          /\ \A t \in TypeValues :
                /\ AT24Cxx_GetPageWriteSize(t) \in 8 .. 256
                /\ t \notin ChipTypes => AT24Cxx_GetPageWriteSize(t) = 8
                /\ AT24Cxx_config(t, cfg.devaddr, cfg.haraddr).pagesize
                      = AT24Cxx_GetPageWriteSize(t)
          /\ \A t \in ChipTypes :
                AT24Cxx_SetWordAddress(AT24Cxx_config(t, cfg.devaddr, cfg.haraddr),
                                       0).addrsize
                  = IF t \in AT24C32 .. AT24CM02 THEN 2 ELSE 1
    /\ \A k \in 1 .. Len(log) :
          IsXfer(log[k]) =>
              log[k].asize = IF dev.type \in AT24C32 .. AT24CM02 THEN 2 ELSE 1
    /\ dev.type = cfg.type
    /\ dev.pagesize = AT24Cxx_GetPageWriteSize(cfg.type)

(* Two calls on an AT24C32, the smallest model with two address bytes.     *)
C13_Witness ==
    /\ pc = "idle" /\ calls >= 2
    /\ dev.type = AT24C32
    /\ \E k \in 1 .. Len(log) : IsXfer(log[k]) /\ log[k].asize = 2

(* C14: in AT24Cxx_Readback_Write the write phase is performed whatever    *)
(* the chip holds and whatever the transport reports, and every read comes *)
(* after the last write transaction and its delay: once a read is in the   *)
(* log, only reads follow.                                                 *)
C14_ReadsAfterWholeWrite ==
    op.name = "Readback_Write" =>
        /\ ChunksOf(log) = FaultFreeChunks
        /\ \A j, k \in 1 .. Len(log) :
              (j < k /\ log[j].kind = "r") => log[k].kind = "r"
        /\ \A k \in 2 .. Len(log) :
              (log[k].kind = "r" /\ log[k - 1].kind # "r") => log[k - 1].kind = "delay"

(* A Readback_Write of data the chip already held has returned success     *)
(* after two write transactions followed by two reads.                     *)
C14_Witness ==
    /\ Returned("Readback_Write") /\ ret = 0
    /\ prev.op.name = "Write" /\ prev.op.saddr = op.saddr /\ prev.op.data = op.data
    /\ Len(Writes) >= 2
    /\ Len(log) >= 2 * Len(Writes) + 2
    /\ log[Len(log)].kind = "r"

(* C15: the comparison loop of AT24Cxx_Readback_Write issues exactly       *)
(* floor(size / 10) full-chunk reads and then exits, for every size.       *)
C15_ReadbackLoopExits ==
    (op.name = "Readback_Write" /\ pc = "rb_loop") =>
        /\ rb.rk <= op.size \div AT24Cxx_MAX_COMPARE_SIZE
        /\ rb.rk = op.size \div AT24Cxx_MAX_COMPARE_SIZE => ~(rb.i < rb.quotient)

(* The read transactions of the log as (address, length) chunks.           *)
IsR(e) == e.kind = "r"
ReadChunksOf(l) == LET R == SelectSeq(l, IsR)
                   IN  [k \in 1 .. Len(R) |-> <<R[k].addr, R[k].len>>]

(* Chunks of AT24Cxx_MAX_COMPARE_SIZE bytes over [addr, addr + size), then *)
(* the remainder if there is one.                                          *)
CompareChunks(addr, size) ==
    LET q == size \div AT24Cxx_MAX_COMPARE_SIZE
        r == size % AT24Cxx_MAX_COMPARE_SIZE
    IN  [j \in 1 .. q |-> <<addr + (j - 1) * AT24Cxx_MAX_COMPARE_SIZE,
                            AT24Cxx_MAX_COMPARE_SIZE>>]
        \o (IF r > 0 THEN <<<<addr + q * AT24Cxx_MAX_COMPARE_SIZE, r>>>> ELSE <<>>)

(* C16: AT24Cxx_Readback_Write never issues a Read of length 0, and a call *)
(* that returns success has read back [addr, addr + size) in chunks of     *)
(* AT24Cxx_MAX_COMPARE_SIZE bytes and a final partial chunk only when the  *)
(* remainder is not 0.                                                     *)
C16_ReadbackNoEmptyRead ==
    op.name = "Readback_Write" =>
        /\ \A k \in 1 .. Len(log) : log[k].kind = "r" => log[k].len >= 1
        /\ (pc = "idle" /\ ret = 0)
              => ReadChunksOf(log) = CompareChunks(op.saddr, op.size)

(* C17: a call of AT24Cxx_Read for size >= 1 issues one read transaction,  *)
(* for the whole request at the start address, whatever pages it spans;    *)
(* in the software build the transaction reads size bytes, the first       *)
(* size - 1 answered with ACK and the last with NACK, and ends with a stop.*)
C17_SingleReadAckNack ==
    /\ Returned("Read") =>
          /\ Len(log) = 1
          /\ log[1].kind = "r" /\ log[1].addr = op.saddr /\ log[1].len = op.size
    /\ \A k \in 1 .. Len(log) :
          (log[k].kind = "r" /\ log[k].len >= 1 /\ mode = 0) =>
              /\ Len(log[k].bus) = log[k].len + 1
              /\ \A j \in 1 .. log[k].len - 1 : log[k].bus[j] = "ACK"
              /\ log[k].bus[log[k].len] = "NACK"
              /\ log[k].bus[log[k].len + 1] = "STOP"

(* A Read of the software build of 50 bytes at 100, over seven pages of an *)
(* AT24C02, has returned.                                                  *)
C17_Witness ==
    /\ Returned("Read") /\ mode = 0
    /\ dev.type = AT24C02 /\ op.saddr = 100 /\ op.size = 50
    /\ Len(log) = 1 /\ log[1].bus[op.size] = "NACK"

(* C18: the payload of every transaction of AT24Cxx_Write at address a     *)
(* with length n is data[a - start .. a - start + n); on a fault-free      *)
(* transport the chip then holds data[k] at start + k for every k < size,  *)
(* and what it held before the call everywhere else.                       *)
C18_WritePayloadLockstep ==
    Returned("Write") =>
        /\ \A k \in 1 .. Len(Writes) :
              Writes[k].data = SubSeq(op.data, Writes[k].addr - op.saddr + 1,
                                      Writes[k].addr - op.saddr + Writes[k].len)
        /\ op.plan = NoFault =>
              /\ \A k \in 0 .. op.size - 1 : MemAt(mem, op.saddr + k) = op.data[k + 1]
              /\ \A a \in (DOMAIN mem) \cup (DOMAIN prev.mem) :
                    (a < op.saddr \/ a >= op.saddr + op.size)
                        => MemAt(mem, a) = MemAt(prev.mem, a)

(* A fault-free Write of two transactions or more on a chip that an        *)
(* earlier call had written to.                                            *)
C18_Witness ==
    /\ Returned("Write") /\ op.plan = NoFault
    /\ Len(Writes) >= 2
    /\ prev.op.name = "Erase" /\ prev.op.saddr # op.saddr
    /\ \E a \in DOMAIN mem : a < op.saddr \/ a >= op.saddr + op.size

(* The locals of the loop of the last Write / Erase call when it was left, *)
(* on a transport that never fails.                                        *)
LoopExit ==
    IF op.name = "Erase"
    THEN AT24Cxx_Erase(mode, dev, <<>>, op.saddr, op.fdata, op.size, NoFault)
    ELSE AT24Cxx_Write(mode, dev, <<>>, op.saddr, op.data, op.size, NoFault)

(* The unit the loop of the last Write / Erase call splits at.             *)
LoopUnit == IF op.name = "Erase" THEN EraseUnit(mode, dev) ELSE dev.pagesize

(* C19: the loops of AT24Cxx_Write and AT24Cxx_Erase terminate: from every *)
(* position with bytes remaining the next chunk has length >= 1 and at     *)
(* most the remaining count, every transaction issued has length >= 1, the *)
(* lengths sum to size, the loop is left with RemainSize 0 at EndAddr, and *)
(* a call with size 0 issues no transaction and returns success.           *)
C19_ChunkLoopsTerminate ==
    (Returned("Write") \/ Returned("Erase")) =>
        /\ \A i \in op.saddr .. op.saddr + op.size - 1 :
              ChunkSize(LoopUnit, i, op.saddr + op.size - i)
                  \in 1 .. (op.saddr + op.size - i)
        /\ \A k \in 1 .. Len(Writes) : Writes[k].len >= 1
        /\ SumLen(ChunksOf(log)) = op.size
        /\ LoopExit.RemainSize = 0 /\ LoopExit.i = LoopExit.EndAddr
        /\ op.size = 0 => (log = <<>> /\ ret = 0)

(* An Erase of 50 bytes has returned after five transactions or more.      *)
C19_Witness ==
    /\ Returned("Erase")
    /\ op.size = 50 /\ Len(Writes) >= 5
    /\ LoopExit.RemainSize = 0

(* An Erase of 0 bytes has returned.                                       *)
C19_WitnessEmpty == Returned("Erase") /\ op.size = 0 /\ log = <<>> /\ ret = 0

(* The number of bytes of fbuf that memset has set.                        *)
FilledBytes(buf) == Cardinality({j \in 1 .. Len(buf) : buf[j] # -1})

(* C20: in the hardware build the length of every transaction of           *)
(* AT24Cxx_Erase is at most the number of bytes of fbuf that were filled,  *)
(* which is at most the page size and at most the size of fbuf; every      *)
(* transaction sends the first bytes of the same fbuf, all equal to fdata. *)
C20_EraseBufferBound ==
    (Returned("Erase") /\ mode = 1) =>
        LET fbuf == EraseBuf(mode, dev, op.fdata)
        IN  /\ FilledBytes(fbuf) = EraseUnit(mode, dev)
            /\ FilledBytes(fbuf) <= dev.pagesize
            /\ FilledBytes(fbuf) <= Len(fbuf)
            /\ Len(fbuf) = max(8, AT24Cxx_MAX_ERASE_SIZE)
            /\ \A k \in 1 .. Len(Writes) :
                  /\ Writes[k].len <= FilledBytes(fbuf)
                  /\ Writes[k].data = SubSeq(fbuf, 1, Writes[k].len)
                  /\ \A j \in 1 .. Writes[k].len : Writes[k].data[j] = op.fdata

(* An Erase of the hardware build has sent a transaction that takes the    *)
(* whole of fbuf, on a chip whose pages are larger than fbuf.              *)
C20_Witness ==
    /\ Returned("Erase") /\ mode = 1
    /\ dev.pagesize > AT24Cxx_MAX_ERASE_SIZE
    /\ \E k \in 1 .. Len(Writes) : Writes[k].len = AT24Cxx_MAX_ERASE_SIZE
    /\ Len(Writes) >= 2

====
